---- MODULE Spec2Model ----
(***************************************************************************)
(* Leap-size control loop of the partitioned-leaping simulator of Network3 *)
(* (BioNetFit_v1/Simulators/Network3/src/pla/eRungeKutta/extra):           *)
(*   eRungeKutta_TC_FG_rbPL  - reaction-based post-leap checker ("rb")     *)
(*   eRungeKutta_TC_FG_sbPL  - species-based post-leap checker  ("sb")     *)
(*                                                                         *)
(* Numbers.  tau and the factors p, pp, q, w, eps are doubles in the code; *)
(* here they are exact rationals <<num, den>> in lowest terms, so that     *)
(* "tau *= p" is an exact multiplication.  Populations and projected       *)
(* populations are fixed-point integers with Scale units per molecule;     *)
(* sqrt() is the integer square root of the fixed-point radicand.          *)
(*                                                                         *)
(* Collaborators that are not part of the two classes are oracles: the     *)
(* Preleap_TC estimator, fg->fireRxns and the verdict of RBChecker and     *)
(* SBChecker draw their result from a small set at each call;              *)
(* g_Getter::get_g(i) and the propensities left by aCalc->calc_aEff are    *)
(* functions of the live populations.                                      *)
(* The thread of control is sequential: pc is its position, and the loops  *)
(* of the code (constructor loop, catch-up loop, retry loop) advance one   *)
(* iteration per step.                                                     *)
(*                                                                         *)
(* Spec is the controller from construction on.  CopySpec adds the copy    *)
(* constructor.  UnequalSpec runs getNewTau and check from registry states *)
(* whose arrays differ in length, which no run of Spec reaches.            *)
(***************************************************************************)
EXTENDS Integers, Sequences, FiniteSets, TLC

\* ------------------------------------------------------------- bounds
MaxRxn   == 2      \* reactions (and species) the live network may grow to
MaxCalls == 2      \* getNewTau calls followed in one run
MaxFires == 1      \* fireRxns calls followed in one run

Scale    == 10 * 10 \* fixed-point units per molecule

\* ---------------------------------------------------------- rationals
RECURSIVE GCD(_, _)
GCD(a, b) == IF b = 0 THEN a ELSE GCD(b, a % b)

Abs(x) == IF x < 0 THEN -x ELSE x

\* n/d in lowest terms, d > 0
Rat(n, d) == LET g == GCD(Abs(n), d) IN IF n = 0 THEN <<0, 1>> ELSE <<n \div g, d \div g>>

RMul(a, b)  == Rat(a[1] * b[1], a[2] * b[2])
RLess(a, b) == a[1] * b[2] < b[1] * a[2]
RLeq(a, b)  == a[1] * b[2] <= b[1] * a[2]

RECURSIVE RPow(_, _)
RPow(a, n) == IF n = 0 THEN <<1, 1>> ELSE RMul(a, RPow(a, n - 1))

ZERO == <<0, 1>>
ONE  == <<1, 1>>

\* tau * x for a fixed-point x, rounded toward zero
FxMul(t, x) == IF x >= 0 THEN (t[1] * x) \div t[2] ELSE -((t[1] * (-x)) \div t[2])

\* floor(sqrt(x)) for x >= 0, by bisection on the bits of the root
RECURSIVE SqrtBits(_, _, _)
SqrtBits(x, r, b) ==
    IF b = 0 THEN r
    ELSE IF (r + b) * (r + b) <= x THEN SqrtBits(x, r + b, b \div 2)
         ELSE SqrtBits(x, r, b \div 2)

ISqrt(x) == SqrtBits(x, 0, 32768)

\* ------------------------------------------------- construction inputs
Variants == {"rb", "sb"}
EpsVals  == {<<0, 1>>, <<1, 10>>}
PVals    == {<<0, 1>>, <<1, 4>>, <<1, 2>>, <<1, 1>>}
PPVals   == {<<1, 4>>, <<9, 10>>, <<3, 2>>}
QVals    == {<<1, 2>>, <<3, 2>>}
WVals    == {<<0, 1>>, <<1, 100>>, <<1, 1>>}

\* ------------------------------------------------------- oracle ranges
TauInitVals == {<<1, 1>>, <<2, 1>>}         \* Preleap_TC::getNewTau results
ThreshVals  == {<<1, 1>>}                   \* tau below which the checker accepts
AEffVals    == {10}                         \* effective propensities at the initial populations
KVals       == {20}                         \* firings of one reaction in one step
Pop0        == 100 * Scale                  \* population of a species when it appears

\* --------------------------------------------------------------- state
VARIABLES
    variant,        \* which class is instantiated: "rb" or "sb"
    eps, p, pp, q, w,   \* constructor arguments / const members
    thr,            \* environment: the checker accepts every trial tau below thr
    pc,             \* position of the single thread of control ("fatal": after exit(1))
    diag,           \* diagnostic printed before exit(1), "" if none
    ch, bc, gGet,   \* TRUE once the owned collaborator object has been created
    preCalc,        \* bool preCalc
    substantially,  \* bool substantially: "indeterminate" until check() assigns it
    oldPop, old_g, projPop,   \* the registry (old_g stays empty in "rb")
    rxn,            \* live network: rxn[v] = indices of rxn[v]->rateSpecies
    sp,             \* live network: sp[j] = sp[j]->population
    a_eff,          \* aCalc->a_eff
    aEffTau,        \* the argument of the last calc_aEff call (<<>> if none)
    tau,            \* the driver's tau, passed by reference to getNewTau
    tauIn,          \* value of tau on entry to the current/last getNewTau
    firstTrial,     \* tau on first entry to the retry loop of that call
    nRej,           \* rejected trials of that call
    chLog,          \* checker invocations of the current/last operation
    ret,            \* return value of the last check(): "true", "false"; "none" before
    ptcCalls,       \* invocations of ptc.getNewTau
    entryLen,       \* registry length on entry to the current/last catch-up loop
    k,              \* firings handed back by fg->fireRxns, <<>> once applied
    nCalls, nFires  \* run-length counters

cfgVars  == <<variant, eps, p, pp, q, w, thr>>
objVars  == <<ch, bc, gGet>>
regVars  == <<oldPop, old_g, projPop>>
netVars  == <<rxn, sp>>
tauVars  == <<tau, tauIn, firstTrial, nRej>>
vars == <<variant, eps, p, pp, q, w, thr, pc, diag, ch, bc, gGet, preCalc,
          substantially, oldPop, old_g, projPop, rxn, sp, a_eff, aEffTau, tau,
          tauIn, firstTrial, nRej, chLog, ret, ptcCalls, entryLen, k,
          nCalls, nFires>>

\* ------------------------------------------------ the reaction network
\* Reaction 1 is S1 -> 2 S1; reaction v >= 2 is S1 + Sv -> 2 Sv.
RateSpecies(v) == IF v = 1 THEN <<1>> ELSE <<v, 1>>

\* aCalc->stoich: net change of species j when reaction v fires once
Stoich(j, v) ==
    IF v = 1 THEN (IF j = 1 THEN 1 ELSE 0)
    ELSE IF j = 1 THEN -1 ELSE IF j = v THEN 1 ELSE 0

\* number of tracked entities of the live network
Tracked == IF variant = "rb" THEN Len(rxn) ELSE Len(sp)

\* g_Getter::get_g(i): a value determined by the live state of species i
get_g(i) == 2 + (sp[i] \div Pop0)

\* ------------------------------------------------------- the registry
\* live populations of the rate species of reaction u (rbPL.cpp:210-211)
RatePops(u) == [j \in 1..Len(rxn[u]) |-> sp[rxn[u][j]]]

\* eRungeKutta_TC_FG_rbPL::addRxn: the guard of the if, and the two push_backs
addRxn_guard(old, proj) ==
    /\ Len(old) < Len(rxn)
    /\ Len(proj) < Len(rxn)
    /\ Len(old) = Len(proj)

\* addRxn refreshing every baseline entry while it appends the new one
addRxn_oldPop_refresh(old) ==
    Append([v \in 1..Len(old) |-> RatePops(v)], RatePops(Len(old) + 1))

\* addRxn leaving the new baseline entry zero instead of copying the populations
addRxn_oldPop_zero(old) == Append(old, [j \in 1..Len(rxn[Len(old) + 1]) |-> 0])

addRxn_oldPop(old) == Append(old, RatePops(Len(old) + 1))

\* addRxn without the push_back on projPop
addRxn_projPop_missing(proj) == proj

addRxn_projPop(proj) == Append(proj, [j \in 1..Len(rxn[Len(proj) + 1]) |-> 0])

\* eRungeKutta_TC_FG_sbPL::addSpecies
addSpecies_guard(old, g, proj) ==
    /\ Len(old) < Len(sp)
    /\ Len(old) = Len(g)
    /\ Len(old) = Len(proj)

addSpecies_oldPop(old) == Append(old, sp[Len(old) + 1])

addSpecies_old_g(g) == Append(g, get_g(Len(g) + 1))

addSpecies_projPop(proj) == Append(proj, 0)

\* the catch-up condition off by one: a registry one entry short is not grown
catchUp_cond_offByOne ==
    IF variant = "rb"
    THEN Len(oldPop) + 1 < Len(rxn) /\ Len(projPop) + 1 < Len(rxn)
    ELSE Len(oldPop) + 1 < Len(sp) /\ Len(old_g) + 1 < Len(sp) /\ Len(projPop) + 1 < Len(sp)

\* the catch-up condition with <= for !=: a synchronised registry is grown again
catchUp_cond_leq ==
    IF variant = "rb"
    THEN Len(oldPop) <= Len(rxn) /\ Len(projPop) <= Len(rxn)
    ELSE Len(oldPop) <= Len(sp) /\ Len(old_g) <= Len(sp) /\ Len(projPop) <= Len(sp)

\* the condition of the catch-up while loops that open getNewTau and check
catchUp_cond ==
    IF variant = "rb"
    THEN Len(oldPop) # Len(rxn) /\ Len(projPop) # Len(rxn)
    ELSE Len(oldPop) # Len(sp) /\ Len(old_g) # Len(sp) /\ Len(projPop) # Len(sp)

\* one call of addRxn / addSpecies
AddEntry ==
    IF variant = "rb"
    THEN IF addRxn_guard(oldPop, projPop)
         THEN /\ oldPop' = addRxn_oldPop(oldPop)
              /\ projPop' = addRxn_projPop(projPop)
              /\ old_g' = old_g
              /\ UNCHANGED <<pc, diag>>
         ELSE /\ pc' = "fatal"
              /\ diag' = "addRxn: No rxns to add"
              /\ UNCHANGED regVars
    ELSE IF addSpecies_guard(oldPop, old_g, projPop)
         THEN /\ oldPop' = addSpecies_oldPop(oldPop)
              /\ old_g' = addSpecies_old_g(old_g)
              /\ projPop' = addSpecies_projPop(projPop)
              /\ UNCHANGED <<pc, diag>>
         ELSE /\ pc' = "fatal"
              /\ diag' = "addSpecies: No species to add"
              /\ UNCHANGED regVars

\* ----------------------------------------------------- the projection
\* sum over the reactions v <= n of z^e * a[v], z = stoich[j][v], e = 1 or 2
\* (the inner for loop of getNewTau, rbPL.cpp:130-135, sbPL.cpp:126-131)
RECURSIVE SumZ(_, _, _, _)
SumZ(j, a, n, e) ==
    IF n = 0 THEN 0
    ELSE SumZ(j, a, n - 1, e)
         + (IF e = 1 THEN Stoich(j, n) ELSE Stoich(j, n) * Stoich(j, n)) * a[n]

\* mean_dX[j] without "mean_dX[j] *= tau"
mean_dX_noTau(j, t, a) == SumZ(j, a, Len(a), 1) * Scale

\* mean_dX[j] after "mean_dX[j] *= tau", in fixed point
mean_dX(j, t, a) == FxMul(t, SumZ(j, a, Len(a), 1) * Scale)

\* sdev_dX[j] with "*= tau" applied after sqrt() instead of before it
sdev_dX_tauAfterSqrt(j, t, a) ==
    LET s == FxMul(t, ISqrt(SumZ(j, a, Len(a), 2) * Scale * Scale))
    IN  IF SumZ(j, a, Len(a), 1) * t[1] < 0 THEN -s ELSE s

\* sdev_dX[j] without the sign flip
sdev_dX_unsigned(j, t, a) == ISqrt(FxMul(t, SumZ(j, a, Len(a), 2) * Scale * Scale))

\* sdev_dX[j] after "*= tau", sqrt() and the sign flip, in fixed point
sdev_dX(j, t, a) ==
    LET s == ISqrt(FxMul(t, SumZ(j, a, Len(a), 2) * Scale * Scale))
    IN  IF SumZ(j, a, Len(a), 1) * t[1] < 0 THEN -s ELSE s

\* the new contents of projPop[][] (rbPL.cpp:144-150) and projPop[] (sbPL.cpp:140-143)
\* when the loop reads the baseline values old
ProjectedOver(old, t, a) ==
    IF variant = "rb"
    THEN [v \in 1..Len(projPop) |->
            [j \in 1..Len(rxn[v]) |->
                old[v][j] + mean_dX(rxn[v][j], t, a) + sdev_dX(rxn[v][j], t, a)]]
    ELSE [j \in 1..Len(projPop) |-> old[j] + mean_dX(j, t, a) + sdev_dX(j, t, a)]

Projected(t, a) == ProjectedOver(oldPop, t, a)

\* The loop runs over projPop.size() and indexes oldPop with the same index.
\* An index past the end of oldPop is undefined behaviour: the run crashes, or
\* the read yields some value.
JunkPops == {0, Pop0}

oldPopRead(junk) ==
    [v \in 1..Len(projPop) |->
        IF v <= Len(oldPop) THEN oldPop[v]
        ELSE IF variant = "rb" THEN [j \in 1..Len(rxn[v]) |-> junk] ELSE junk]

BaselineReads ==
    IF Len(projPop) <= Len(oldPop) THEN {oldPop} ELSE {oldPopRead(junk) : junk \in JunkPops}

CrashOutcomes == IF Len(projPop) <= Len(oldPop) THEN {FALSE} ELSE BOOLEAN

\* ---------------------------------------------------------- the oracles
\* RBChecker::check / SBChecker::check: the verdict for a pre-leap check of
\* trial tau t is TRUE below thr and arbitrary otherwise; a post-leap verdict
\* is arbitrary.
Verdicts(t, post) == IF ~post /\ RLess(t, thr) THEN {TRUE} ELSE BOOLEAN

\* a record of one ch->check(scale, ..., ref, post) call and its verdict
ChCall(scale, ref, post, res) == [scale |-> scale, ref |-> ref, post |-> post, res |-> res]

\* a read of the bool member 'substantially'
SubstRead == IF substantially = "indeterminate" THEN BOOLEAN ELSE {substantially = "true"}

\* aCalc->calc_aEff(tau): the vectors a_eff[] it may leave.  Reaction 1 has a
\* constant effective propensity; that of a later reaction v doubles once the
\* population of its species v has risen above the initial one.
AEffOf(v) == IF v > 1 /\ sp[v] > Pop0 THEN {2 * x : x \in AEffVals} ELSE AEffVals

AEffVecs ==
    {a \in [1..Len(rxn) -> UNION {AEffOf(v) : v \in 1..Len(rxn)}] :
        \A v \in 1..Len(rxn) : a[v] \in AEffOf(v)}

\* ----------------------------------------------------------------- Init
Init ==
    /\ variant \in Variants
    /\ eps \in EpsVals /\ p \in PVals /\ pp \in PPVals /\ q \in QVals /\ w \in WVals
    /\ thr \in ThreshVals
    /\ pc = "new" /\ diag = ""
    /\ ch = FALSE /\ bc = FALSE /\ gGet = FALSE
    /\ preCalc = TRUE
    /\ substantially = "indeterminate"
    /\ oldPop = <<>> /\ old_g = <<>> /\ projPop = <<>>
    /\ rxn = <<RateSpecies(1)>>
    /\ sp = <<Pop0>>
    /\ a_eff = <<>> /\ aEffTau = <<>>
    /\ tau = ZERO /\ tauIn = ZERO /\ firstTrial = ZERO /\ nRej = 0
    /\ chLog = <<>> /\ ret = "none"
    /\ ptcCalls = 0 /\ entryLen = 0 /\ k = <<>>
    /\ nCalls = 0 /\ nFires = 0

\* ---------------------------------------------------------- constructor
\* the error checks with the test of w joined by && instead of ||
ctor_check_wAnd ==
    IF RLess(pp, p) THEN "ctor: pp must be >= p"
    ELSE IF RLess(q, ONE) THEN "ctor: q must be >= 1.0"
    ELSE IF RLeq(w, ZERO) /\ RLeq(ONE, w) THEN "ctor: w must be > 0.0 and < 1.0"
    ELSE ""

\* the three "Error check" ifs of the constructors, in order; "" if all pass
ctor_check ==
    IF RLess(pp, p) THEN "ctor: pp must be >= p"
    ELSE IF RLess(q, ONE) THEN "ctor: q must be >= 1.0"
    ELSE IF RLeq(w, ZERO) \/ RLeq(ONE, w) THEN "ctor: w must be > 0.0 and < 1.0"
    ELSE ""

\* argument checks of the collaborators' own constructors
Checker_ctor == IF RLess(ZERO, eps) THEN "" ELSE "checker: eps must be > 0.0"

BinomialCorrector_RK_ctor ==
    IF RLess(ZERO, p) /\ RLess(p, ONE) THEN "" ELSE "corrector: p must be > 0.0 and < 1.0"

\* constructor up to the "Add rxns" / "Add species" loop
Construct ==
    /\ pc = "new"
    /\ IF ctor_check # ""
       THEN /\ pc' = "fatal" /\ diag' = ctor_check
            /\ UNCHANGED objVars
       ELSE IF Checker_ctor # ""
       THEN /\ pc' = "fatal" /\ diag' = Checker_ctor
            /\ UNCHANGED objVars
       ELSE IF BinomialCorrector_RK_ctor # ""
       THEN /\ pc' = "fatal" /\ diag' = BinomialCorrector_RK_ctor
            /\ ch' = TRUE /\ UNCHANGED <<bc, gGet>>
       ELSE /\ pc' = "ctor_loop" /\ diag' = ""
            /\ ch' = TRUE /\ bc' = TRUE /\ gGet' = (variant = "sb")
    /\ UNCHANGED <<cfgVars, regVars, netVars, tauVars, preCalc, substantially, a_eff,
                   aEffTau, chLog, ret, ptcCalls, entryLen, k, nCalls, nFires>>

\* one iteration of the constructor's loop over rxn / sp
Construct_Loop ==
    /\ pc = "ctor_loop"
    /\ IF Len(oldPop) < Tracked
       THEN AddEntry
       ELSE pc' = "idle" /\ UNCHANGED <<diag, regVars>>
    /\ UNCHANGED <<cfgVars, objVars, netVars, tauVars, preCalc, substantially, a_eff,
                   aEffTau, chLog, ret, ptcCalls, entryLen, k, nCalls, nFires>>

\* ------------------------------------------------------------ getNewTau
\* the driver calls getNewTau(tau)
GetNewTau_Enter ==
    /\ pc = "idle"
    /\ nCalls < MaxCalls
    /\ pc' = "gnt_catchup"
    /\ tauIn' = tau /\ firstTrial' = ZERO /\ nRej' = 0
    /\ chLog' = <<>>
    /\ entryLen' = Len(oldPop)
    /\ nCalls' = nCalls + 1
    /\ UNCHANGED <<cfgVars, objVars, regVars, netVars, tau, diag, preCalc, substantially,
                   a_eff, aEffTau, ret, ptcCalls, k, nFires>>

\* one test of the "Check for new rxns / species" while loop, in getNewTau and in check
CatchUp ==
    /\ pc \in {"gnt_catchup", "chk_catchup"}
    /\ IF catchUp_cond
       THEN AddEntry
       ELSE /\ pc' = (IF pc = "gnt_catchup" THEN "gnt_scale" ELSE "chk_body")
            /\ UNCHANGED <<diag, regVars>>
    /\ UNCHANGED <<cfgVars, objVars, netVars, tauVars, preCalc, substantially, a_eff,
                   aEffTau, chLog, ret, ptcCalls, entryLen, k, nCalls, nFires>>

\* the else branch of "Get new tau"; s is the value read from 'substantially'
scaleTau(t, s) == IF s THEN RMul(t, q) ELSE RMul(t, pp)

\* the reduction with the wrong factor, and with its result dropped
shrink_by_pp(t) == RMul(t, pp)

shrink_dropped(t) == t

\* "tau *= this->p; // Reduce"
shrink(t) == RMul(t, p)

\* the estimator consulted on every call
useEstimator_always == TRUE

\* "if (this->preCalc)"
useEstimator == preCalc

\* "Get new tau": the estimator on the first call, q or pp afterwards
GetNewTau_Scale ==
    /\ pc = "gnt_scale"
    /\ IF useEstimator
       THEN /\ \E t0 \in TauInitVals : tau' = t0
            /\ preCalc' = FALSE
            /\ ptcCalls' = ptcCalls + 1
       ELSE /\ \E s \in SubstRead : tau' = scaleTau(tau, s)
            /\ UNCHANGED <<preCalc, ptcCalls>>
    /\ firstTrial' = tau'
    /\ pc' = "gnt_loop"
    /\ UNCHANGED <<cfgVars, objVars, regVars, netVars, tauIn, nRej, diag, substantially,
                   a_eff, aEffTau, chLog, ret, entryLen, k, nCalls, nFires>>

\* the reduction applied whatever the verdict
tauAfterTrial_always(t, ok) == shrink(t)

\* "if (!ok){ tau *= this->p; }": tau after a trial with verdict ok
tauAfterTrial(t, ok) == IF ok THEN t ELSE shrink(t)

\* one iteration of the "Perform pre-check" while loop
GetNewTau_Trial ==
    /\ pc = "gnt_loop"
    /\ \E a \in AEffVecs, ok \in Verdicts(tau, FALSE), old \in BaselineReads,
          crash \in CrashOutcomes :
          /\ a_eff' = a
          /\ aEffTau' = tau
          /\ IF crash
             THEN pc' = "crashed" /\ UNCHANGED <<projPop, chLog, tau, nRej>>
             ELSE /\ projPop' = ProjectedOver(old, tau, a)
                  /\ chLog' = Append(chLog, ChCall(ONE, "projPop", FALSE, ok))
                  /\ tau' = tauAfterTrial(tau, ok)
                  /\ IF ok
                     THEN pc' = "idle" /\ UNCHANGED nRej
                     ELSE pc' = "gnt_loop" /\ nRej' = nRej + 1
    /\ UNCHANGED <<cfgVars, objVars, netVars, oldPop, old_g, tauIn, firstTrial, diag,
                   preCalc, substantially, ret, ptcCalls, entryLen, k, nCalls, nFires>>

\* ------------------------------------------------------------- fireRxns
\* fg->fireRxns(k,classif,tau,a_eff) fills k; nothing of the controller changes
FireRxns ==
    /\ pc = "idle"
    /\ nFires < MaxFires
    /\ k = <<>>
    /\ k' \in [1..Len(rxn) -> KVals]
    /\ nFires' = nFires + 1
    /\ UNCHANGED <<cfgVars, objVars, regVars, netVars, tauVars, pc, diag, preCalc,
                   substantially, a_eff, aEffTau, chLog, ret, ptcCalls, entryLen,
                   nCalls>>

\* ---------------------------------------------------------------- check
Check_Enter ==
    /\ pc = "idle"
    /\ pc' = "chk_catchup"
    /\ chLog' = <<>>
    /\ entryLen' = Len(oldPop)
    /\ UNCHANGED <<cfgVars, objVars, regVars, netVars, tauVars, diag, preCalc,
                   substantially, a_eff, aEffTau, ret, ptcCalls, k, nCalls, nFires>>

\* check() returning the strict verdict alone
check_ok_strict(v1, v2) == v1

\* the value check() returns: v1 is the verdict at w, v2 the verdict at 1.0
check_ok(v1, v2) == IF v1 THEN TRUE ELSE v2

\* the checker calls check() makes
check_calls(v1, v2) ==
    IF v1 THEN <<ChCall(w, "oldPop", TRUE, v1)>>
    ELSE <<ChCall(w, "oldPop", TRUE, v1), ChCall(ONE, "oldPop", TRUE, v2)>>

\* the body of check() after the catch-up loop
Check_Body ==
    /\ pc = "chk_body"
    /\ \E v1 \in Verdicts(tau, TRUE) :
       \E v2 \in (IF v1 THEN {TRUE} ELSE Verdicts(tau, TRUE)) :
          /\ substantially' = (IF v1 THEN "true" ELSE "false")
          /\ ret' = (IF check_ok(v1, v2) THEN "true" ELSE "false")
          /\ chLog' = check_calls(v1, v2)
    /\ pc' = "idle"
    /\ UNCHANGED <<cfgVars, objVars, regVars, netVars, tauVars, diag, preCalc, a_eff,
                   aEffTau, ptcCalls, entryLen, k, nCalls, nFires>>

\* --------------------------------------------------------------- update
\* the baseline after the copy loop of update()
update_oldPop ==
    IF variant = "rb"
    THEN [v \in 1..Len(oldPop) |-> RatePops(v)]
    ELSE [j \in 1..Len(oldPop) |-> sp[j]]

update_old_g ==
    IF variant = "rb" THEN old_g ELSE [j \in 1..Len(oldPop) |-> get_g(j)]

\* update() without its size checks
update_check_skipped == ""

\* the "Just in case" size checks of update(), in order; "" if all pass
update_check ==
    IF Len(oldPop) # Tracked THEN "update: Sizes of 'oldPop' and live vector not equal"
    ELSE IF variant = "sb" /\ Len(old_g) # Tracked
    THEN "update: Sizes of 'old_g' and 'sp' vectors not equal"
    ELSE IF Len(projPop) # Tracked
    THEN "update: Sizes of 'projPop' and live vector not equal"
    ELSE ""

Update ==
    /\ pc = "idle"
    /\ oldPop' = update_oldPop
    /\ old_g' = update_old_g
    /\ IF update_check # ""
       THEN pc' = "fatal" /\ diag' = update_check
       ELSE UNCHANGED <<pc, diag>>
    /\ UNCHANGED <<cfgVars, objVars, netVars, tauVars, projPop, preCalc, substantially,
                   a_eff, aEffTau, chLog, ret, ptcCalls, entryLen, k, nCalls, nFires>>

\* ------------------------------------------------------ the environment
\* a species and the reaction that consumes it are appended to the live network
NetGrow ==
    /\ pc = "idle"
    /\ Len(rxn) < MaxRxn
    /\ sp' = Append(sp, Pop0)
    /\ rxn' = Append(rxn, RateSpecies(Len(rxn) + 1))
    /\ UNCHANGED <<cfgVars, objVars, regVars, tauVars, pc, diag, preCalc,
                   substantially, a_eff, aEffTau, chLog, ret, ptcCalls, entryLen,
                   k, nCalls, nFires>>

\* the driver applies the firings k to the populations
NetFire ==
    /\ pc = "idle"
    /\ k # <<>>
    /\ sp' = [j \in 1..Len(sp) |-> sp[j] + Scale * SumZ(j, k, Len(k), 1)]
    /\ k' = <<>>
    /\ UNCHANGED <<cfgVars, objVars, regVars, rxn, tauVars, pc, diag, preCalc,
                   substantially, a_eff, aEffTau, chLog, ret, ptcCalls, entryLen,
                   nCalls, nFires>>

\* --------------------------------------------------------- specification
Next ==
    \/ Construct
    \/ Construct_Loop
    \/ GetNewTau_Enter
    \/ CatchUp
    \/ GetNewTau_Scale
    \/ GetNewTau_Trial
    \/ FireRxns
    \/ Check_Enter
    \/ Check_Body
    \/ Update
    \/ NetGrow
    \/ NetFire

Spec == Init /\ [][Next]_vars

\* the thread of control is always scheduled: the retry loop keeps iterating
LiveSpec == Spec /\ WF_vars(GetNewTau_Trial)

\* ================================================================ claims

RPos(a) == RLess(ZERO, a)

\* the retry loop of a getNewTau call other than the first has been entered
\* and no trial has been made yet
AtFirstTrialOfLaterCall == pc = "gnt_loop" /\ chLog = <<>> /\ ptcCalls = 1 /\ nCalls >= 2

\* C1: on every getNewTau call but the first, the first trial tau is the tau
\* passed in times q if the most recent check() classified the step as
\* substantially accepted, and times pp otherwise.
C1_Hysteresis ==
    AtFirstTrialOfLaterCall =>
        firstTrial = RMul(tauIn, IF substantially = "true" THEN q ELSE pp)

\* The same, for the calls that are made after check() has run on the instance.
Hysteresis_AfterCheck ==
    (AtFirstTrialOfLaterCall /\ ret # "none") =>
        /\ firstTrial = RMul(tauIn, IF substantially = "true" THEN q ELSE pp)
        /\ tau = firstTrial

\* least n with t * p^n < thr, for 0 < p < 1 and t > 0
RECURSIVE ShrinksNeeded(_)
ShrinksNeeded(t) == IF RLess(t, thr) THEN 0 ELSE 1 + ShrinksNeeded(RMul(t, p))

\* C2: with 0 < p < 1, a positive first trial tau and a checker that accepts
\* every tau below thr, the retry loop of getNewTau rejects at most
\* ShrinksNeeded(first trial) times, so it ends after finitely many iterations.
C2_ShrinkTerminates ==
    (pc = "gnt_loop" /\ RPos(p) /\ RLess(p, ONE) /\ RPos(firstTrial)) =>
        nRej <= ShrinksNeeded(firstTrial)

\* the loop has run the largest number of iterations the bound allows
C2_Witness ==
    /\ pc = "idle" /\ chLog # <<>> /\ chLog[1].ref = "projPop"
    /\ nRej >= 2
    /\ nRej = ShrinksNeeded(firstTrial)

\* under weak fairness of the loop body the retry loop is always left
ShrinkLoopExits == (pc = "gnt_loop") ~> (pc = "idle")

\* the last operation that called the checker was getNewTau, and it has returned
ReturnedFromGetNewTau == pc = "idle" /\ chLog # <<>> /\ chLog[1].ref = "projPop"

\* C3: the tau getNewTau returns is the first trial tau times p^k, k the number
\* of rejected trials; every trial is a check at scale 1.0 with isPostCheck
\* false, the first k are rejected and trial k+1, the first accepted, ends the
\* loop with tau unchanged.
C3_RetryResult ==
    /\ pc = "gnt_loop" =>
          /\ tau = RMul(firstTrial, RPow(p, nRej))
          /\ Len(chLog) = nRej
          /\ \A i \in 1..Len(chLog) : chLog[i] = ChCall(ONE, "projPop", FALSE, FALSE)
    /\ ReturnedFromGetNewTau =>
          /\ tau = RMul(firstTrial, RPow(p, nRej))
          /\ Len(chLog) = nRej + 1
          /\ \A i \in 1..nRej : chLog[i] = ChCall(ONE, "projPop", FALSE, FALSE)
          /\ chLog[nRej + 1] = ChCall(ONE, "projPop", FALSE, TRUE)

\* getNewTau has returned after two rejected trials
C3_Witness == ReturnedFromGetNewTau /\ nRej = 2 /\ tau # firstTrial

\* the last operation that called the checker was check(), and it has returned
ReturnedFromCheck == pc = "idle" /\ chLog # <<>> /\ chLog[1].ref = "oldPop"

\* C4: check() first evaluates the bound check on the baseline at scale w with
\* isPostCheck true; if it passes, 'substantially' is true, check() returns true
\* and the loose check is not evaluated; otherwise the same check is evaluated
\* at scale 1.0, its result is returned and 'substantially' is false.  Hence
\* substantially implies accepted.
C4_Classification ==
    /\ substantially = "true" => ret = "true"
    /\ ReturnedFromCheck =>
          /\ chLog[1].scale = w /\ chLog[1].ref = "oldPop" /\ chLog[1].post
          /\ chLog[1].res =>
                Len(chLog) = 1 /\ substantially = "true" /\ ret = "true"
          /\ ~chLog[1].res =>
                /\ Len(chLog) = 2
                /\ chLog[2].scale = ONE /\ chLog[2].ref = "oldPop" /\ chLog[2].post
                /\ substantially = "false"
                /\ ret = (IF chLog[2].res THEN "true" ELSE "false")

\* a step has been classified as barely accepted
C4_Witness ==
    ReturnedFromCheck /\ Len(chLog) = 2 /\ ret = "true" /\ substantially = "false"

\* one of the relations the constructor checks itself is broken
BadRelation == RLess(pp, p) \/ RLess(q, ONE) \/ RLeq(w, ZERO) \/ RLeq(ONE, w)

\* C5: a construction with pp < p, q < 1.0, w <= 0 or w >= 1 ends in the fatal
\* state with the constructor's diagnostic, before the checker, the corrector,
\* the g getter or any registry entry is created.
C5_CtorRelations ==
    (pc # "new" /\ BadRelation) =>
        /\ pc = "fatal"
        /\ diag \in {"ctor: pp must be >= p", "ctor: q must be >= 1.0",
                     "ctor: w must be > 0.0 and < 1.0"}
        /\ ~ch /\ ~bc /\ ~gGet
        /\ oldPop = <<>> /\ old_g = <<>> /\ projPop = <<>>

\* a construction was refused because of w alone
C5_Witness == pc = "fatal" /\ diag = "ctor: w must be > 0.0 and < 1.0" /\ RLeq(ONE, w)

\* C6: every controller that is constructed, and so every controller getNewTau
\* is called on, has eps > 0, 0 < p < 1, p <= pp <= 1, q >= 1.0 and 0 < w < 1.
C6_CtorRanges ==
    (pc = "idle" \/ nCalls >= 1) =>
        /\ RPos(eps)
        /\ RPos(p) /\ RLess(p, ONE)
        /\ RLeq(p, pp) /\ RLeq(pp, ONE)
        /\ RLeq(ONE, q)
        /\ RPos(w) /\ RLess(w, ONE)

\* the live value the baseline of entity i is copied from
LiveBaseline(i) == IF variant = "rb" THEN RatePops(i) ELSE sp[i]

\* the value a projected slot is initialised to
ZeroSlot(i) == IF variant = "rb" THEN [j \in 1..Len(rxn[i]) |-> 0] ELSE 0

\* every baseline entry that exists before the step is the same after it
BaselineKept ==
    /\ Len(oldPop') >= Len(oldPop)
    /\ \A i \in 1..Len(oldPop) : oldPop'[i] = oldPop[i]
    /\ Len(old_g') >= Len(old_g)
    /\ \A i \in 1..Len(old_g) : old_g'[i] = old_g[i]

\* C7: the baseline values of registered entities (oldPop, old_g) change only
\* in update(): every step of getNewTau (rejected trials included), of check(),
\* of fireRxns and of the catch-up loop leaves every existing baseline entry as
\* it is, the catch-up loop only appending entries.
C7_BaselineFrame == [][Update \/ BaselineKept]_vars

\* getNewTau has rejected a trial and returned, after a catch-up that appended
\* an entry, while the baseline of entity 1 differs from its live value
C7_Witness ==
    /\ ReturnedFromGetNewTau /\ nRej >= 1
    /\ entryLen < Len(oldPop)
    /\ oldPop[1] # LiveBaseline(1)

\* C8: the parallel arrays of the registry have the same length in every state:
\* oldPop and projPop in the reaction variant, oldPop, old_g and projPop in the
\* species variant.
C8_RegistrySizes ==
    /\ Len(oldPop) = Len(projPop)
    /\ variant = "sb" => Len(old_g) = Len(oldPop)
    /\ variant = "rb" => old_g = <<>>

\* the registry has been grown by a catch-up loop after getNewTau and check ran
C8_Witness ==
    /\ pc = "idle" /\ nCalls >= 1 /\ ret # "none"
    /\ entryLen = 1 /\ Len(oldPop) = 2 /\ Len(projPop) = 2

\* C9 as stated: once the controller is constructed, the size of oldPop equals
\* the number of tracked entities of the live network in every state.
C9_BaselineSize ==
    pc \notin {"new", "ctor_loop"} => Len(oldPop) = Tracked

\* C9 as amended: oldPop never has more entries than the live network has
\* tracked entities; it has as many at every return from the constructor,
\* getNewTau and check, and in every later step that does not grow the network.
C9_BaselineSizeAmended ==
    [][/\ Len(oldPop') <= Tracked'
       /\ (pc # "idle" /\ pc' = "idle") => Len(oldPop') = Tracked'
       /\ (Len(oldPop) = Tracked /\ netVars' = netVars /\ pc # "new")
             => Len(oldPop') = Tracked']_vars

\* the network has grown since the last catch-up and then getNewTau returned
C9_Witness ==
    /\ ReturnedFromGetNewTau
    /\ entryLen < Len(oldPop) /\ Len(oldPop) = Tracked /\ Tracked = MaxRxn

\* C10: when the catch-up loop of getNewTau or check is left, the registry is
\* as long as the live network, and each entry appended by the loop has its
\* baseline equal to the live value (population, and get_g in the species
\* variant) and its projected slot zero; each iteration appends one entry.
C10_CatchUp ==
    /\ pc \in {"gnt_scale", "chk_body"} =>
          /\ Len(oldPop) = Tracked
          /\ Len(projPop) = Tracked
          /\ \A i \in (entryLen + 1)..Len(oldPop) :
                /\ oldPop[i] = LiveBaseline(i)
                /\ projPop[i] = ZeroSlot(i)
                /\ variant = "sb" => old_g[i] = get_g(i)
    /\ pc \in {"gnt_catchup", "chk_catchup"} =>
          /\ entryLen <= Len(oldPop) /\ Len(oldPop) <= Tracked
          /\ \A i \in (entryLen + 1)..Len(oldPop) :
                oldPop[i] = LiveBaseline(i) /\ projPop[i] = ZeroSlot(i)

\* a catch-up loop has appended an entry whose live value is not the initial one
C10_Witness ==
    /\ pc \in {"gnt_scale", "chk_body"}
    /\ entryLen < Len(oldPop)
    /\ sp[Len(sp)] # Pop0

\* the registry has every array as long as the live network
Synchronised ==
    /\ Len(oldPop) = Tracked
    /\ Len(projPop) = Tracked
    /\ variant = "sb" => Len(old_g) = Tracked

\* C11: running the catch-up routine on a registry that is already synchronised
\* with the live network is a no-op: the loop is left at its first test with
\* the registry (lengths, baseline and projected values) as it was and without
\* an error; so a second run straight after a first changes nothing.
C11_CatchUpIdempotent ==
    [][(pc \in {"gnt_catchup", "chk_catchup"} /\ Synchronised) =>
          /\ regVars' = regVars
          /\ pc' = (IF pc = "gnt_catchup" THEN "gnt_scale" ELSE "chk_body")
          /\ diag' = diag]_vars

\* the catch-up of check() has run on a registry of two entries, which an
\* earlier catch-up had grown and which is still synchronised
C11_Witness ==
    /\ pc = "chk_body" /\ nCalls >= 1
    /\ entryLen = 2 /\ Len(oldPop) = 2 /\ Tracked = 2

\* the diagnostics of update()
UpdateDiags ==
    {"update: Sizes of 'oldPop' and live vector not equal",
     "update: Sizes of 'old_g' and 'sp' vectors not equal",
     "update: Sizes of 'projPop' and live vector not equal"}

\* C12: update() invoked while the registry length differs from the live
\* network count ends in the fatal state with a diagnostic of update(), and it
\* appends nothing to the registry (it performs no catch-up).
C12_UpdateOutOfSync ==
    [][(Update /\ Len(oldPop) # Tracked) =>
          /\ pc' = "fatal"
          /\ diag' \in UpdateDiags
          /\ Len(oldPop') = Len(oldPop)
          /\ Len(old_g') = Len(old_g)
          /\ projPop' = projPop]_vars

\* update() was called after the network grew past the registry, and exited
C12_Witness ==
    /\ pc = "fatal" /\ diag \in UpdateDiags
    /\ Len(oldPop) < Tracked /\ nCalls >= 1

\* the projected and the baseline population of the first species, as held for
\* the first tracked entity
Proj1 == IF variant = "rb" THEN projPop[1][1] ELSE projPop[1]

Base1 == IF variant = "rb" THEN oldPop[1][1] ELSE oldPop[1]

\* two fixed-point values that agree to the last digit
Near(x, y) == Abs(x - y) <= 1

\* the scenario of C13: one reaction S1 -> 2 S1, a = 10, eps = 0.1, p = 0.5,
\* pp = 0.9, q = 1.5, w = 0.01, baseline population 100, and the first
\* getNewTau call with the estimator's tau = 1.0
C13_Scenario ==
    /\ eps = <<1, 10>> /\ p = <<1, 2>> /\ pp = <<9, 10>> /\ q = <<3, 2>> /\ w = <<1, 100>>
    /\ Len(rxn) = 1 /\ Len(projPop) = 1
    /\ nCalls = 1 /\ firstTrial = ONE
    /\ a_eff = <<10>>
    /\ Base1 = 100 * Scale

\* the part of the trace at tau = 1.0: projected population 113.16, above the
\* bound 110 = baseline + eps * baseline; when that trial is rejected tau is
\* shrunk once, to 0.5
C13_FirstTrial ==
    /\ aEffTau = ONE =>
          /\ Near(Proj1, 11316)
          /\ Proj1 - Base1 > FxMul(eps, Base1)
    /\ (aEffTau = ONE /\ pc = "gnt_loop") => (nRej = 1 /\ tau = <<1, 2>>)
    /\ aEffTau = <<1, 2>> => (nRej = 1 /\ tau = <<1, 2>>)

\* C13 as stated: in the scenario the first trial projects 113.16 (mean 10,
\* sdev sqrt(10)), it is rejected against 110, tau is shrunk once to 0.5, and
\* the projection at 0.5 is about 106.58 (mean 5 plus deviation about 1.58).
C13_Trace ==
    C13_Scenario =>
        /\ C13_FirstTrial
        /\ aEffTau = <<1, 2>> => Near(Proj1, 10658)

\* C13 as amended: the same trace with the projection at tau = 0.5 about
\* 107.24 (mean 5 plus deviation sqrt(5), about 2.24).
C13_TraceAmended ==
    C13_Scenario =>
        /\ C13_FirstTrial
        /\ aEffTau = <<1, 2>> => Near(Proj1, 10724)

\* the scenario has been run to the end: one rejection, accepted at tau = 0.5
C13_Witness ==
    /\ C13_Scenario /\ ReturnedFromGetNewTau
    /\ nRej = 1 /\ aEffTau = <<1, 2>> /\ tau = <<1, 2>>

\* the deviation part of a projected value: what is left of proj - base once
\* the mean tau * sum_v stoich[j][v] * a[v] is taken away
DevPart(base, proj, j, t, a) == (proj - base) - FxMul(t, SumZ(j, a, Len(a), 1) * Scale)

\* d is, in magnitude, tau * sqrt(sum_v stoich[j][v]^2 * a[v]), within 0.05
TauTimesRoot(d, j, t, a) ==
    Abs(Abs(d) - FxMul(t, ISqrt(SumZ(j, a, Len(a), 2) * Scale * Scale))) <= 5

\* d is, in magnitude, sqrt(tau * sum_v stoich[j][v]^2 * a[v]), rounded down
RootOfTauTimes(d, j, t, a) ==
    LET x == FxMul(t, SumZ(j, a, Len(a), 2) * Scale * Scale)
    IN  Abs(d) * Abs(d) <= x /\ x < (Abs(d) + 1) * (Abs(d) + 1)

\* the deviation d has the magnitude the formula named by form gives
DevIs(form, d, j, t, a) ==
    IF form = "tau*sqrt" THEN TauTimesRoot(d, j, t, a) ELSE RootOfTauTimes(d, j, t, a)

\* if the step is a retry iteration at trial tau, every projected value it
\* leaves is baseline + mean + a deviation of the magnitude form gives
ProjectionStep(form) ==
    pc = "gnt_loop" =>
        /\ Len(projPop') = Len(projPop)
        /\ IF variant = "rb"
           THEN \A v \in 1..Len(projPop') : \A i \in 1..Len(rxn[v]) :
                   DevIs(form, DevPart(oldPop[v][i], projPop'[v][i], rxn[v][i], tau, a_eff'),
                         rxn[v][i], tau, a_eff')
           ELSE \A j \in 1..Len(projPop') :
                   DevIs(form, DevPart(oldPop[j], projPop'[j], j, tau, a_eff'), j, tau, a_eff')

\* C14 as stated: in every retry iteration, for every tracked quantity j,
\* projected[j] = baseline[j] + mean[j] + sdev[j] with baseline the committed
\* oldPop value, mean[j] = tau * sum_v stoich[j][v] * a_eff[v] and
\* |sdev[j]| = tau * sqrt(sum_v stoich[j][v]^2 * a_eff[v]).
C14_Projection == [][ProjectionStep("tau*sqrt")]_vars

\* C14 as amended: the same with |sdev[j]| = sqrt(tau * sum_v stoich[j][v]^2 * a_eff[v]).
C14_ProjectionAmended == [][ProjectionStep("sqrt(tau*)")]_vars

\* a retry iteration has run at a trial tau other than 1 for two reactions,
\* while the committed baseline of entity 1 differed from its live value
C14_Witness ==
    /\ pc \in {"gnt_loop", "idle"} /\ chLog # <<>> /\ chLog[1].ref = "projPop"
    /\ Len(projPop) = 2 /\ projPop[2] # ZeroSlot(2)
    /\ aEffTau # ONE
    /\ oldPop[1] # LiveBaseline(1)

\* the mean change tau * sum_v stoich[j][v] * a[v] of quantity j
MeanPart(j, t, a) == FxMul(t, SumZ(j, a, Len(a), 1) * Scale)

\* the deviation d built into a projection agrees in sign with the mean m, and
\* the projected change has the magnitude |m| + |d|
SignsAgree(base, proj, m, d) ==
    /\ m < 0 => d <= 0
    /\ m >= 0 => d >= 0
    /\ Abs(proj - base) = Abs(m) + Abs(d)

\* C15: in every retry iteration and for every tracked quantity, the signed
\* deviation used to build the projection is negative or zero when the mean
\* change is negative and is not negative when the mean change is zero or
\* positive, so that |projected - baseline| = |mean| + |sdev|.
C15_SignCorrect ==
    [][pc = "gnt_loop" =>
          IF variant = "rb"
          THEN \A v \in 1..Len(projPop') : \A i \in 1..Len(rxn[v]) :
                  SignsAgree(oldPop[v][i], projPop'[v][i],
                             MeanPart(rxn[v][i], tau, a_eff'),
                             DevPart(oldPop[v][i], projPop'[v][i], rxn[v][i], tau, a_eff'))
          ELSE \A j \in 1..Len(projPop') :
                  SignsAgree(oldPop[j], projPop'[j], MeanPart(j, tau, a_eff'),
                             DevPart(oldPop[j], projPop'[j], j, tau, a_eff'))]_vars

\* a retry iteration has projected species 1 below its baseline: its mean
\* change was negative (reaction 2 outweighs reaction 1)
C15_Witness ==
    /\ pc = "gnt_loop" /\ nRej >= 1
    /\ Len(a_eff) = 2 /\ a_eff[2] > a_eff[1]
    /\ MeanPart(1, aEffTau, a_eff) < 0
    /\ Proj1 < Base1

\* a retry iteration has projected species 1 with a zero mean change and a
\* deviation that is not zero
ZeroMeanProjected ==
    /\ pc = "gnt_loop" /\ nRej >= 1
    /\ Len(a_eff) = 2 /\ MeanPart(1, aEffTau, a_eff) = 0
    /\ Proj1 > Base1

\* ---------------------------------------------- handlers on a broken registry
\* The registry arrays of a controller have different lengths.
Unequal ==
    IF variant = "rb" THEN Len(oldPop) # Len(projPop)
    ELSE Len(oldPop) # Len(old_g) \/ Len(oldPop) # Len(projPop)

\* A constructed controller whose registry arrays have different lengths.  No
\* run of Spec reaches such a state (C8_RegistrySizes); it is the input on which
\* C16 describes getNewTau and check.
UnequalInit ==
    /\ variant \in Variants
    /\ eps = <<1, 10>> /\ p = <<1, 2>> /\ pp = <<9, 10>> /\ q = <<3, 2>> /\ w = <<1, 100>>
    /\ thr \in ThreshVals
    /\ pc = "idle" /\ diag = ""
    /\ ch = TRUE /\ bc = TRUE /\ gGet = (variant = "sb")
    /\ preCalc \in BOOLEAN
    /\ substantially \in {"true", "false"}
    /\ \E n \in 1..MaxRxn :
          /\ rxn = [v \in 1..n |-> RateSpecies(v)]
          /\ sp = [j \in 1..n |-> Pop0]
    /\ \E lo \in 0..Len(rxn), lg \in 0..Len(rxn), lp \in 0..Len(rxn) :
          /\ oldPop = [i \in 1..lo |-> LiveBaseline(i)]
          /\ old_g = (IF variant = "sb" THEN [i \in 1..lg |-> get_g(i)] ELSE <<>>)
          /\ projPop = [i \in 1..lp |-> ZeroSlot(i)]
          /\ variant = "rb" => lg = 0
    /\ Unequal
    /\ a_eff = <<>> /\ aEffTau = <<>>
    /\ tau \in TauInitVals /\ tauIn = ZERO /\ firstTrial = ZERO /\ nRej = 0
    /\ chLog = <<>> /\ ret = "none"
    /\ ptcCalls = (IF preCalc THEN 0 ELSE 1)
    /\ entryLen = Len(oldPop) /\ k = <<>>
    /\ nCalls = 0 /\ nFires = 0

\* the driver calls getNewTau or check on it
UnequalNext ==
    \/ GetNewTau_Enter
    \/ CatchUp
    \/ GetNewTau_Scale
    \/ GetNewTau_Trial
    \/ Check_Enter
    \/ Check_Body

UnequalSpec == UnequalInit /\ [][UnequalNext]_vars

\* C16: from a state in which the registry arrays have different lengths, a
\* call of getNewTau or check ends in the fatal state: it does not reach the
\* choice of tau, the projection or the bound check, and it does not return.
C16_UnequalFatal ==
    /\ pc \in {"idle", "gnt_catchup", "chk_catchup", "fatal"}
    /\ pc = "idle" => (nCalls = 0 /\ ret = "none")
    /\ pc = "fatal" => diag \in {"addRxn: No rxns to add", "addSpecies: No species to add"}

\* one of the registry arrays has the length of the live vector
OneArraySynced ==
    \/ Len(oldPop) = Tracked
    \/ Len(projPop) = Tracked
    \/ variant = "sb" /\ Len(old_g) = Tracked

\* What the code does do: the call ends in the fatal state when none of the
\* arrays has the live vector's length.
Unequal_FatalUnlessOneSynced == OneArraySynced \/ C16_UnequalFatal

\* The arrays stay unequal in every state of UnequalSpec.
Unequal_Stays == Unequal

\* the first getNewTau call has not yet reached its "Get new tau" step
BeforeFirstEstimate == nCalls = 0 \/ (nCalls = 1 /\ pc \in {"gnt_catchup", "gnt_scale"})

\* getNewTau has just chosen its first trial tau
FirstTrialChosen == pc = "gnt_loop" /\ chLog = <<>>

\* C17: over every run of one controller instance the estimator
\* Preleap_TC::getNewTau is invoked by the first getNewTau call and by no later
\* one; the first call takes the estimator's tau as its first trial, without
\* applying q or pp, and every later call multiplies the tau passed in by
\* exactly one of q and pp.
C17_EstimatorOnce ==
    /\ ptcCalls = (IF BeforeFirstEstimate THEN 0 ELSE 1)
    /\ preCalc = BeforeFirstEstimate
    /\ (FirstTrialChosen /\ nCalls = 1) => (tau = firstTrial /\ firstTrial \in TauInitVals)
    /\ (FirstTrialChosen /\ nCalls >= 2) =>
          (tau = firstTrial /\ firstTrial \in {RMul(tauIn, q), RMul(tauIn, pp)})

\* a second getNewTau call, made after a check(), has chosen its first trial
C17_Witness ==
    /\ FirstTrialChosen /\ nCalls = 2 /\ ret # "none"
    /\ ptcCalls = 1 /\ firstTrial = RMul(tauIn, q) /\ firstTrial \notin TauInitVals

\* getNewTau has returned and no later getNewTau call has begun
SinceGetNewTauReturned ==
    nCalls >= 1 /\ pc \in {"idle", "chk_catchup", "chk_body", "fatal"}

\* C18: from the return of getNewTau until the next getNewTau call (so during
\* the fireRxns and check() calls that follow) the effective propensities
\* held by the calculator are those calc_aEff computed at the returned tau.
C18_AEffAtReturnedTau ==
    SinceGetNewTauReturned => (a_eff # <<>> /\ aEffTau = tau)

\* getNewTau returned after a rejected trial, the reactions were fired and
\* applied, and check() has returned
C18_Witness ==
    /\ ReturnedFromCheck /\ nCalls >= 1 /\ nRej >= 1
    /\ nFires = 1 /\ k = <<>>
    /\ aEffTau = tau /\ tau # firstTrial

\* ------------------------------------------------------ copy construction
\* The copy constructor: the driver goes on with a copy of the controller.
\* p, pp, q, w are copied, preCalc is set to true, 'substantially' is not in
\* the initialiser list, the checker, corrector and g getter are copied, and
\* the registry of the copy is filled by one addRxn / addSpecies call per live
\* entity.  The counters of calls are those of the instance in use.
CopyConstruct ==
    /\ pc = "idle"
    /\ preCalc' = TRUE
    /\ substantially' = "indeterminate"
    /\ oldPop' = [i \in 1..Tracked |-> LiveBaseline(i)]
    /\ old_g' = (IF variant = "sb" THEN [i \in 1..Tracked |-> get_g(i)] ELSE <<>>)
    /\ projPop' = [i \in 1..Tracked |-> ZeroSlot(i)]
    /\ ptcCalls' = 0
    /\ chLog' = <<>> /\ ret' = "none"
    /\ entryLen' = 0
    /\ UNCHANGED <<cfgVars, objVars, netVars, tauVars, pc, diag, a_eff, aEffTau, k,
                   nCalls, nFires>>

CopyNext == Next \/ CopyConstruct

CopySpec == Init /\ [][CopyNext]_vars

\* a getNewTau call that will read 'substantially' begins
FlagReadingCallBegins == pc = "idle" /\ pc' = "gnt_catchup" /\ ~preCalc

\* C19: whenever getNewTau reads 'substantially' to choose between q and pp,
\* check() has assigned the flag on this instance since the previous getNewTau
\* call: every getNewTau call after the first begins with the flag assigned
\* and with check() as the last operation that called the checker.
C19_FlagDefined ==
    [][FlagReadingCallBegins =>
          /\ substantially # "indeterminate"
          /\ chLog # <<>> /\ chLog[1].ref = "oldPop"]_vars

\* The flag is unassigned in a copy too, and the copy's first getNewTau call
\* does not read it.
Copy_FirstCallUsesEstimator ==
    [][(pc = "gnt_scale" /\ ptcCalls = 0) => (preCalc /\ tau' \in TauInitVals)]_vars

\* a copy made after check() had assigned the flag of the original
CopiedAfterCheck ==
    /\ pc = "gnt_scale" /\ ptcCalls = 0 /\ nCalls >= 2
    /\ substantially = "indeterminate"

\* the verdict of the last checker call of the step
LastVerdict == chLog'[Len(chLog')].res

\* The control values after a step (tau, the first-call flag, 'substantially',
\* the result of check()) are determined by the values before it, the
\* parameters and the inputs of the step (the estimator's tau, the verdicts);
\* nothing of the variant or of the registry enters.  With anyFlag the value
\* read from an unassigned 'substantially' is left open.
ControlStep(anyFlag) ==
    /\ pc = "gnt_scale" =>
          /\ preCalc' = FALSE
          /\ preCalc => tau' \in TauInitVals
          /\ ~preCalc =>
                IF substantially = "indeterminate"
                THEN anyFlag /\ tau' \in {RMul(tau, q), RMul(tau, pp)}
                ELSE tau' = RMul(tau, IF substantially = "true" THEN q ELSE pp)
          /\ UNCHANGED <<substantially, ret>>
    /\ pc = "gnt_loop" =>
          /\ tau' = (IF LastVerdict THEN tau ELSE RMul(tau, p))
          /\ pc' = (IF LastVerdict THEN "idle" ELSE "gnt_loop")
          /\ UNCHANGED <<preCalc, substantially, ret>>
    /\ pc = "chk_body" =>
          /\ substantially' = (IF chLog'[1].res THEN "true" ELSE "false")
          /\ ret' = (IF chLog'[1].res \/ LastVerdict THEN "true" ELSE "false")
          /\ UNCHANGED <<tau, preCalc>>
    /\ pc \notin {"gnt_scale", "gnt_loop", "chk_body"} =>
          UNCHANGED <<tau, preCalc, substantially, ret>>

\* C20: a reaction-based and a species-based controller run side by side with
\* the same parameters, the same initial tau and the same verdicts have the
\* same trial taus, returned tau, check() results, 'substantially' and
\* first-call flag after every operation.  Stated on one controller of either
\* variant: each step leaves these values as the one function of the common
\* inputs gives them.
C20_VariantEquivalence == [][ControlStep(FALSE)]_vars

\* The same with the value read from an unassigned flag left open: the two
\* variants can differ in that read only.
VariantEquivalence_UpToFlagRead == [][ControlStep(TRUE)]_vars

====
